---------------------------- MODULE Spec2Model ----------------------------
(***************************************************************************)
(* Valoritario backend: the catalog (products, supermarkets), the          *)
(* inventory ledger and the shopping-list resolver, as the Express         *)
(* handlers of the controllers drive the Prisma store.                     *)
(*                                                                         *)
(* Numbers.  A price is a JSON decimal with three fractional digits; it is *)
(* modelled by its value in thousandths (mills).  The handlers read it as  *)
(* the IEEE-754 double nearest to that decimal, so products and toFixed(2) *)
(* are computed on the double: ProductErrSign gives, with small integers   *)
(* only, the sign of the difference between the double the code computes   *)
(* and the decimal product.  Amounts that went through toFixed(2) are kept *)
(* in mills too (a multiple of 10).                                        *)
(***************************************************************************)
EXTENDS Integers, Sequences, FiniteSets, TLC

(***************************************************************************)
(* Bounds of the model.                                                    *)
(***************************************************************************)
MaxProducts == 2        \* product ids the store issues
MaxSupermarkets == 2    \* supermarket ids the store issues
MaxLines == 2           \* lines of one shopping list
MaxInFlight == 2        \* createProduct calls between their two awaits

(***************************************************************************)
(* Input domains.                                                          *)
(***************************************************************************)
UserIds == {1, 2, 3}
RoleOf(u) == CASE u = 1 -> "BASIC" [] u = 2 -> "VERIFIED" [] OTHER -> "ADMIN"
ProductIds == 1..MaxProducts
SupermarketIds == 1..MaxSupermarkets
ProductNames == {"milk", "rice"}
Categories == {"DAIRY", "GRAINS"}
SupermarketNames == {"Fresh Mart", "Save More"}
Cities == {"New York", "Boston"}
Prices == {1005, 3500}
Quantities == {1, 2}
Absent == <<>>          \* a body field that is undefined; <<v>> carries v
None == "null"          \* findFirst / findUnique found no row

(***************************************************************************)
(* IEEE-754 double arithmetic on decimals given in mills.                  *)
(***************************************************************************)
Pow2(n) == 2 ^ n

Abs(x) == IF x < 0 THEN -x ELSE x

\* TRUE iff a / 1000 >= 2^e, for a >= 1 and e of either sign
GeqPow2(a, e) == IF e >= 0 THEN a >= 1000 * Pow2(e) ELSE a * Pow2(-e) >= 1000

EqPow2(a, e) == IF e >= 0 THEN a = 1000 * Pow2(e) ELSE a * Pow2(-e) = 1000

\* the binary exponent of a / 1000: the largest e with 2^e <= a / 1000
RECURSIVE ExpFrom(_, _)
ExpFrom(a, e) ==
  IF GeqPow2(a, e)
  THEN IF GeqPow2(a, e + 1) THEN ExpFrom(a, e + 1) ELSE e
  ELSE ExpFrom(a, e - 1)

Exponent(a) == ExpFrom(a, 0)

LowBits == 2 ^ 8   \* low mantissa bits tracked: enough for quantities below 256

\* 2^n modulo 1000, for n >= 0
RECURSIVE PowMod(_)
PowMod(n) == IF n <= 20 THEN Pow2(n) % 1000
             ELSE ((Pow2(20) % 1000) * PowMod(n - 20)) % 1000

\* the double nearest to m / 1000 (m >= 1), as <<low bits of its 53-bit
\* mantissa P, s>> where P * 1000 - m * 2^k = s and k = 52 - Exponent(m):
\* binary long division of m by 1000 to k fractional bits, rounded to nearest
\* (the remainder is never exactly 500 at that depth)
NearestDouble(m) ==
  LET k == 52 - Exponent(m)
      r0 == ((m % 1000) * PowMod(k - 8)) % 1000
      low == (LowBits * r0) \div 1000
      r == (LowBits * r0) % 1000
  IN  IF r > 500 THEN <<(low + 1) % LowBits, 1000 - r>>
                 ELSE <<low, -r>>

\* sign of  fl(fl(m / 1000) * q) - m * q / 1000  for m >= 1, q >= 1: the
\* double product of the stored price and the quantity against the decimal one
ProductErrSign(m, q) ==
  LET E == Exponent(m)
      P == NearestDouble(m)
      B == Exponent(m * q) - E
      j == IF EqPow2(m * q, E + B) /\ P[2] < 0 /\ B > 0 THEN B - 1 ELSE B
      N == P[1] * q
      low == N % Pow2(j)
      half == Pow2(j) \div 2
      up == \/ low > half
            \/ low = half /\ (N \div Pow2(j)) % 2 = 1
      t == IF j = 0 THEN 0 ELSE IF up THEN Pow2(j) - low ELSE -low
      v == q * P[2] + 1000 * t
  IN  IF v > 0 THEN 1 ELSE IF v < 0 THEN -1 ELSE 0

\* (x).toFixed(2) for a double x >= 0 whose decimal neighbour is y mills and
\* which lies below (sgn < 0), on (0) or above (> 0) it: "let n be an integer
\* for which n / 100 - x is as close to zero as possible; if there are two
\* such n, pick the larger n".  The result is n.
ToFixed2(y, sgn) ==
  IF y % 10 = 5 /\ sgn < 0 THEN (y - 5) \div 10 ELSE (y + 5) \div 10

\* parseFloat of the string toFixed(2) produced, in mills
ParseFloat(cents) == cents * 10

\* parseFloat((price * quantity).toFixed(2)), price in mills, result in mills
Subtotal(price, quantity) ==
  LET y == Abs(price * quantity)
      n == IF y = 0 THEN 0
           ELSE ToFixed2(y, ProductErrSign(Abs(price), Abs(quantity)))
  IN  ParseFloat(IF price * quantity < 0 THEN -n ELSE n)

\* decimal round-half-up of y mills to two places, in mills
RoundHalfUp2(y) == ((y + 5) \div 10) * 10


(***************************************************************************)
(* State.  The store is the database behind the Prisma client; creating    *)
(* and sl are the handlers that are between two awaits; resp is the last   *)
(* response sent.                                                          *)
(***************************************************************************)
VARIABLES
  products,        \* rows of Product
  supermarkets,    \* rows of Supermarket
  inventory,       \* rows of Inventory, key (supermarketId, productId)
  productSeq,      \* product ids issued so far
  supermarketSeq,  \* supermarket ids issued so far
  creating,        \* POST /products calls past findUnique, before create
  sl,              \* the POST /shoppingList call in its for loop, or Idle
  resp             \* the last response

store == <<products, supermarkets, inventory, productSeq, supermarketSeq>>
vars == <<products, supermarkets, inventory, productSeq, supermarketSeq,
          creating, sl, resp>>

Idle == [stage |-> "idle"]

NoResponse ==
  [op |-> "none", caller |-> 0, status |-> 0, req |-> <<>>,
   row |-> <<>>, rows |-> {}, lines |-> <<>>, total |-> 0]

\* res.status(status).json(...).  op and req name the route and its inputs,
\* caller is req.user.userId (0 on the routes without authGuard); the body is
\* row (one object, as a sequence of length 1), rows (an array whose order the
\* store does not fix) or lines and total (the shopping list)
Respond(op, c, status, req, row, rows, lines, total) ==
  resp' = [op |-> op, caller |-> c, status |-> status,
           req |-> req, row |-> row, rows |-> rows, lines |-> lines,
           total |-> total]

\* a response whose body is a message, an error or a row no property reads
Reply(op, c, status) == Respond(op, c, status, <<>>, <<>>, {}, <<>>, 0)

(***************************************************************************)
(* Role checks, one per gated route, as the handlers write them.           *)
(***************************************************************************)
\* the check of PATCH /supermarket/{id} letting VERIFIED through, and the
\* check of POST /inventory turning ADMIN away
UpdateSupermarketAllowedVerified(role) ==
  ~(role # "ADMIN" /\ role # "VERIFIED")
CreateInventoryAllowedVerifiedOnly(role) == ~(role # "VERIFIED")

CreateProductAllowed(role) == ~(role # "VERIFIED" /\ role # "ADMIN")
UpdateProductAllowed(role) == ~(role # "VERIFIED" /\ role # "ADMIN")
DeleteProductAllowed(role) == ~(role # "ADMIN")
CreateSupermarketAllowed(role) == ~(role # "ADMIN")
ListSupermarketsAllowed(role) == role \in {"BASIC", "VERIFIED", "ADMIN"}
GetSupermarketAllowed(role) == role \in {"BASIC", "VERIFIED", "ADMIN"}
UpdateSupermarketAllowed(role) == ~(role # "ADMIN")
DeleteSupermarketAllowed(role) == ~(role # "ADMIN")
CreateInventoryAllowed(role) == ~(role # "VERIFIED" /\ role # "ADMIN")
CheapestAllowed(role) == role \in {"BASIC", "VERIFIED", "ADMIN"}
\* the check of GET /inventory/category after the conversion of the
\* category: skipped when the category is invalid
CategoryAllowedAll(role) == TRUE
CategoryAllowed(role) == ~(role # "ADMIN" /\ role # "VERIFIED")
UpdateInventoryAllowed(role) == ~(role # "ADMIN" /\ role # "VERIFIED")
\* the check of DELETE /inventory/{supermarketId}/{productId} letting
\* VERIFIED through
DeleteInventoryAllowedVerified(role) ==
  ~(role # "ADMIN" /\ role # "VERIFIED")
DeleteInventoryAllowed(role) == ~(role # "ADMIN")

(***************************************************************************)
(* Store queries.                                                          *)
(***************************************************************************)
ProductsNamed(name) == {p \in products : p.productName = name}
ProductsWithId(id) == {p \in products : p.productId = id}
SupermarketsWithId(id) == {s \in supermarkets : s.supermarketId = id}
EntriesAt(sid, pid) ==
  {e \in inventory : e.supermarketId = sid /\ e.productId = pid}
EntriesOfProduct(pid) == {e \in inventory : e.productId = pid}
EntriesOfSupermarket(sid) == {e \in inventory : e.supermarketId = sid}

\* data: a field that is undefined is left as it is
Patched(old, new) == IF new = Absent THEN old ELSE new[1]

(***************************************************************************)
(* /products                                                               *)
(***************************************************************************)
\* ExistingProduct of a handler that skips the lookup
ExistingProductNone(productName) == {}

\* prisma.product.findUnique({where: {productName}}): the rows found
ExistingProduct(productName) == ProductsNamed(productName)

\* the responses of POST /products
CreateProductReply(c, productName, status) ==
  Respond("createProduct", c, status, <<productName>>, <<>>, {}, <<>>, 0)

\* POST /products up to its second await: role check, findUnique by name
CreateProduct(c, productName, productCategory, productComments) ==
  IF ~CreateProductAllowed(RoleOf(c))
  THEN CreateProductReply(c, productName, 403)
       /\ UNCHANGED <<store, creating, sl>>
  ELSE IF ExistingProduct(productName) # {}
  THEN CreateProductReply(c, productName, 400)
       /\ UNCHANGED <<store, creating, sl>>
  ELSE LET call == [caller |-> c, productName |-> productName,
                    productCategory |-> productCategory,
                    productComments |-> productComments]
       IN  /\ call \notin creating
           /\ Cardinality(creating) < MaxInFlight
           /\ productSeq + Cardinality(creating) < MaxProducts
           /\ creating' = creating \cup {call}
           /\ UNCHANGED <<store, sl, resp>>

\* POST /products from prisma.product.create on: productName is a unique
\* column (findUnique selects by it), so create throws on a taken name and
\* the catch answers 500
CreateProductWrite(call) ==
  /\ call \in creating
  /\ creating' = creating \ {call}
  /\ IF ProductsNamed(call.productName) # {}
     THEN CreateProductReply(call.caller, call.productName, 500)
          /\ UNCHANGED store
     ELSE /\ productSeq' = productSeq + 1
          /\ products' = products \cup
               {[productId |-> productSeq + 1,
                 productName |-> call.productName,
                 productCategory |-> call.productCategory,
                 productComments |-> call.productComments,
                 createdBy |-> call.caller, updatedBy |-> call.caller]}
          /\ CreateProductReply(call.caller, call.productName, 201)
          /\ UNCHANGED <<supermarkets, inventory, supermarketSeq>>
  /\ UNCHANGED sl

\* GET /products
ListProducts ==
  /\ Respond("listProducts", 0, 200, <<>>, <<>>,
             {[productId |-> p.productId, productName |-> p.productName,
               productCategory |-> p.productCategory,
               productComments |-> p.productComments] : p \in products},
             <<>>, 0)
  /\ UNCHANGED <<store, creating, sl>>

\* GET /products/{id}
GetProduct(id) ==
  /\ Reply("getProduct", 0, IF ProductsWithId(id) # {} THEN 200 ELSE 404)
  /\ UNCHANGED <<store, creating, sl>>

\* if (field): the body carries the field and it is not the empty string
Truthy(field) == field # Absent /\ field[1] # ""

\* UpdateData that copies the fields of the body for every role
UpdateDataAnyRole(old, c, productName, productCategory, productComments) ==
  [old EXCEPT !.updatedBy = c,
              !.productName = IF Truthy(productName) THEN productName[1]
                              ELSE @,
              !.productCategory =
                 IF Truthy(productCategory) THEN productCategory[1] ELSE @,
              !.productComments =
                 IF Truthy(productComments) THEN productComments[1] ELSE @]

\* updateData of PATCH /products/{id}
UpdateData(old, c, productName, productCategory, productComments) ==
  IF RoleOf(c) = "ADMIN"
  THEN [old EXCEPT !.updatedBy = c,
                   !.productName = IF Truthy(productName) THEN productName[1]
                                   ELSE @,
                   !.productCategory =
                      IF Truthy(productCategory) THEN productCategory[1]
                      ELSE @,
                   !.productComments =
                      IF Truthy(productComments) THEN productComments[1]
                      ELSE @]
  ELSE [old EXCEPT !.updatedBy = c]

\* the responses of PATCH /products/{id}
UpdateProductReply(c, id, name, category, comments, status) ==
  Respond("updateProduct", c, status, <<id, name, category, comments>>,
          <<>>, {}, <<>>, 0)

\* PATCH /products/{id}: prisma.product.update throws when no row has the id
\* or when the new name is taken, and the catch answers 500
UpdateProduct(c, id, productName, productCategory, productComments) ==
  /\ UNCHANGED <<creating, sl>>
  /\ IF ~UpdateProductAllowed(RoleOf(c))
     THEN UpdateProductReply(c, id, productName, productCategory,
                             productComments, 403)
          /\ UNCHANGED store
     ELSE IF ProductsWithId(id) = {}
     THEN UpdateProductReply(c, id, productName, productCategory,
                             productComments, 500)
          /\ UNCHANGED store
     ELSE LET old == CHOOSE p \in products : p.productId = id
              new == UpdateData(old, c, productName, productCategory,
                                productComments)
          IN  IF ProductsNamed(new.productName) \ {old} # {}
              THEN UpdateProductReply(c, id, productName, productCategory,
                                      productComments, 500)
                   /\ UNCHANGED store
              ELSE /\ products' = (products \ {old}) \cup {new}
                   /\ UpdateProductReply(c, id, productName, productCategory,
                                         productComments, 200)
                   /\ UNCHANGED <<supermarkets, inventory, productSeq,
                                  supermarketSeq>>

\* the responses of the DELETE routes of products and supermarkets
DeleteReply(op, c, id, status) ==
  Respond(op, c, status, <<id>>, <<>>, {}, <<>>, 0)

\* ReferentialActions of a schema whose relations are not enforced
ReferentialActionsUnenforced == {"Unenforced"}

\* onDelete of the relations of Inventory to Product and to Supermarket.  The
\* relations are required (create connects both), so the action is one of
\* the two that a required relation admits; which one the schema states is
\* not in the controllers.
ReferentialActions == {"Restrict", "Cascade"}

\* the ledger after a parent row with the referencing rows refs is deleted
\* under the referential action
AfterDelete(action, refs) ==
  IF action = "Cascade" THEN inventory \ refs ELSE inventory

\* DELETE /products/{id}.  delete throws when no row has the id, and when
\* the referential action restricts and ledger rows reference the product.
DeleteProduct(c, id) ==
  /\ UNCHANGED <<creating, sl>>
  /\ IF ~DeleteProductAllowed(RoleOf(c))
     THEN DeleteReply("deleteProduct", c, id, 403) /\ UNCHANGED store
     ELSE IF ProductsWithId(id) = {}
     THEN DeleteReply("deleteProduct", c, id, 500) /\ UNCHANGED store
     ELSE \E action \in ReferentialActions :
            IF action = "Restrict" /\ EntriesOfProduct(id) # {}
            THEN DeleteReply("deleteProduct", c, id, 500)
                 /\ UNCHANGED store
            ELSE /\ products' = products \ ProductsWithId(id)
                 /\ inventory' = AfterDelete(action, EntriesOfProduct(id))
                 /\ DeleteReply("deleteProduct", c, id, 200)
                 /\ UNCHANGED <<supermarkets, productSeq, supermarketSeq>>

(***************************************************************************)
(* /supermarket                                                            *)
(***************************************************************************)
\* POST /supermarket
CreateSupermarket(c, supermarketName, supermarketComments, city) ==
  /\ UNCHANGED <<creating, sl>>
  /\ IF ~CreateSupermarketAllowed(RoleOf(c))
     THEN Reply("createSupermarket", c, 403) /\ UNCHANGED store
     ELSE /\ supermarketSeq < MaxSupermarkets
          /\ supermarketSeq' = supermarketSeq + 1
          /\ supermarkets' = supermarkets \cup
               {[supermarketId |-> supermarketSeq + 1,
                 supermarketName |-> supermarketName,
                 supermarketComments |-> supermarketComments,
                 city |-> city, createdBy |-> c, updatedBy |-> c]}
          /\ Reply("createSupermarket", c, 201)
          /\ UNCHANGED <<products, inventory, productSeq>>

\* GET /supermarket
ListSupermarkets(c) ==
  /\ IF ~ListSupermarketsAllowed(RoleOf(c))
     THEN Reply("listSupermarkets", c, 403)
     ELSE Respond("listSupermarkets", c, 200, <<>>, <<>>,
                  {[supermarketId |-> s.supermarketId,
                    supermarketName |-> s.supermarketName,
                    city |-> s.city] : s \in supermarkets},
                  <<>>, 0)
  /\ UNCHANGED <<store, creating, sl>>

\* GET /supermarket/{id}
GetSupermarket(c, id) ==
  /\ Reply("getSupermarket", c,
           IF ~GetSupermarketAllowed(RoleOf(c)) THEN 403
           ELSE IF SupermarketsWithId(id) = {} THEN 404 ELSE 200)
  /\ UNCHANGED <<store, creating, sl>>

\* the responses of PATCH /supermarket/{id}
UpdateSupermarketReply(c, id, status) ==
  Respond("updateSupermarket", c, status, <<id>>, <<>>, {}, <<>>, 0)

\* UpdatedSupermarket of an update whose data leaves updatedBy out
UpdatedSupermarketNoStamp(old, c, name, comments, city) ==
  [old EXCEPT !.supermarketName = Patched(@, name),
              !.supermarketComments = Patched(@, comments),
              !.city = Patched(@, city)]

\* the row after prisma.supermarket.update: data carries the three fields of
\* the body and connects updatedBy to the caller
UpdatedSupermarket(old, c, supermarketName, supermarketComments, city) ==
  [old EXCEPT !.supermarketName = Patched(@, supermarketName),
              !.supermarketComments = Patched(@, supermarketComments),
              !.city = Patched(@, city),
              !.updatedBy = c]

\* PATCH /supermarket/{id}: update throws when no row has the id
UpdateSupermarket(c, id, supermarketName, supermarketComments, city) ==
  /\ UNCHANGED <<creating, sl>>
  /\ IF ~UpdateSupermarketAllowed(RoleOf(c))
     THEN UpdateSupermarketReply(c, id, 403) /\ UNCHANGED store
     ELSE IF SupermarketsWithId(id) = {}
     THEN UpdateSupermarketReply(c, id, 500) /\ UNCHANGED store
     ELSE LET old == CHOOSE s \in supermarkets : s.supermarketId = id
              new == UpdatedSupermarket(old, c, supermarketName,
                                        supermarketComments, city)
          IN  /\ supermarkets' = (supermarkets \ {old}) \cup {new}
              /\ UpdateSupermarketReply(c, id, 200)
              /\ UNCHANGED <<products, inventory, productSeq, supermarketSeq>>

\* DELETE /supermarket/{id}, with the ledger rows as in DeleteProduct
DeleteSupermarket(c, id) ==
  /\ UNCHANGED <<creating, sl>>
  /\ IF ~DeleteSupermarketAllowed(RoleOf(c))
     THEN DeleteReply("deleteSupermarket", c, id, 403) /\ UNCHANGED store
     ELSE IF SupermarketsWithId(id) = {}
     THEN DeleteReply("deleteSupermarket", c, id, 500) /\ UNCHANGED store
     ELSE \E action \in ReferentialActions :
            IF action = "Restrict" /\ EntriesOfSupermarket(id) # {}
            THEN DeleteReply("deleteSupermarket", c, id, 500)
                 /\ UNCHANGED store
            ELSE /\ supermarkets' = supermarkets \ SupermarketsWithId(id)
                 /\ inventory' =
                      AfterDelete(action, EntriesOfSupermarket(id))
                 /\ DeleteReply("deleteSupermarket", c, id, 200)
                 /\ UNCHANGED <<products, productSeq, supermarketSeq>>

(***************************************************************************)
(* /inventory                                                              *)
(***************************************************************************)
ProductNameOf(pid) == (CHOOSE p \in products : p.productId = pid).productName

SupermarketNameOf(sid) ==
  (CHOOSE s \in supermarkets : s.supermarketId = sid).supermarketName

\* Offers answered from a copy of the ledger taken at start-up, when the
\* ledger was empty
OffersCached(productId, city) == {}

\* Offers without the city in its where
OffersAnyCity(productId, city) ==
  {e \in inventory : e.productId = productId /\ e.inStock = TRUE}

\* where: {productId, inStock: true, supermarket: {city}}
Offers(productId, city) ==
  {e \in inventory :
     /\ e.productId = productId
     /\ e.inStock = TRUE
     /\ \E s \in supermarkets :
          s.supermarketId = e.supermarketId /\ s.city = city}

\* CheapestOffers with the order reversed (orderBy: {price: 'desc'})
CheapestOffersDesc(productId, city) ==
  {e \in Offers(productId, city) :
     \A o \in Offers(productId, city) : e.price >= o.price}

\* the rows findFirst may return under orderBy: {price: 'asc'}: the order
\* among rows of equal price is the store's choice
CheapestOffers(productId, city) ==
  {e \in Offers(productId, city) :
     \A o \in Offers(productId, city) : e.price <= o.price}

\* the responses of POST /inventory
CreateInventoryReply(c, price, productId, supermarketId, status) ==
  Respond("createInventory", c, status, <<productId, supermarketId, price>>,
          <<>>, {}, <<>>, 0)

\* Connects of a create that connects nothing
ConnectsUnchecked(productId, supermarketId) == TRUE

\* product: {connect: {productId}}, supermarket: {connect: {supermarketId}}:
\* both rows are there
Connects(productId, supermarketId) ==
  /\ ProductsWithId(productId) # {}
  /\ SupermarketsWithId(supermarketId) # {}

\* KeyTaken of a table without the key, and of a store that finds a row
\* for every pair
KeyTakenNever(supermarketId, productId) == FALSE
KeyTakenAlways(supermarketId, productId) == TRUE

\* the key supermarketId_productId: a row with the pair is there
KeyTaken(supermarketId, productId) ==
  EntriesAt(supermarketId, productId) # {}

\* CreateInventory as an upsert: the row of a taken pair is overwritten
CreateInventoryUpsert(c, price, productId, supermarketId) ==
  /\ UNCHANGED <<creating, sl>>
  /\ IF ~CreateInventoryAllowed(RoleOf(c))
     THEN CreateInventoryReply(c, price, productId, supermarketId, 403)
          /\ UNCHANGED store
     ELSE IF ~Connects(productId, supermarketId)
     THEN CreateInventoryReply(c, price, productId, supermarketId, 500)
          /\ UNCHANGED store
     ELSE /\ \E inStock \in BOOLEAN :
               inventory' = (inventory \ EntriesAt(supermarketId, productId))
                 \cup
                 {[supermarketId |-> supermarketId, productId |-> productId,
                   price |-> price, inStock |-> inStock,
                   createdBy |-> c, updatedBy |-> c]}
          /\ CreateInventoryReply(c, price, productId, supermarketId, 201)
          /\ UNCHANGED <<products, supermarkets, productSeq, supermarketSeq>>

\* POST /inventory.  create throws when a connect finds no row or when the
\* key (supermarketId, productId) is taken; inStock is not in the body and
\* takes the column default of the schema
CreateInventory(c, price, productId, supermarketId) ==
  /\ UNCHANGED <<creating, sl>>
  /\ IF ~CreateInventoryAllowed(RoleOf(c))
     THEN CreateInventoryReply(c, price, productId, supermarketId, 403)
          /\ UNCHANGED store
     ELSE IF \/ ~Connects(productId, supermarketId)
             \/ KeyTaken(supermarketId, productId)
     THEN CreateInventoryReply(c, price, productId, supermarketId, 500)
          /\ UNCHANGED store
     ELSE /\ \E inStock \in BOOLEAN :
               inventory' = inventory \cup
                 {[supermarketId |-> supermarketId, productId |-> productId,
                   price |-> price, inStock |-> inStock,
                   createdBy |-> c, updatedBy |-> c]}
          /\ CreateInventoryReply(c, price, productId, supermarketId, 201)
          /\ UNCHANGED <<products, supermarkets, productSeq, supermarketSeq>>

\* the select of the inventory listings
Listing(e) ==
  [price |-> e.price, inStock |-> e.inStock,
   supermarketName |-> SupermarketNameOf(e.supermarketId),
   productName |-> ProductNameOf(e.productId)]

\* GET /inventory
ListInventory(c) ==
  /\ Respond("listInventory", c, 200, <<>>, <<>>,
             {Listing(e) : e \in inventory}, <<>>, 0)
  /\ UNCHANGED <<store, creating, sl>>

\* the select of GET /inventory/cheapest: updatedBy only for ADMIN
CheapestListing(e, role) ==
  IF role = "ADMIN"
  THEN [price |-> e.price, inStock |-> e.inStock, updatedBy |-> e.updatedBy,
        supermarketName |-> SupermarketNameOf(e.supermarketId),
        productName |-> ProductNameOf(e.productId)]
  ELSE Listing(e)

\* GET /inventory/cheapest/{productId}/{city}
Cheapest(c, productId, city) ==
  /\ UNCHANGED <<store, creating, sl>>
  /\ IF ~CheapestAllowed(RoleOf(c))
     THEN Reply("cheapest", c, 403)
     ELSE IF CheapestOffers(productId, city) = {}
     THEN Respond("cheapest", c, 404, <<productId, city>>, <<>>, {}, <<>>, 0)
     ELSE \E e \in CheapestOffers(productId, city) :
            Respond("cheapest", c, 200, <<productId, city>>,
                    <<CheapestListing(e, RoleOf(c))>>, {}, <<>>, 0)

\* ItemsInSupermarket without the where clause
ItemsInSupermarketAll(supermarketId) == inventory

\* itemsInSupermarket = findMany({where: {supermarketId}})
ItemsInSupermarket(supermarketId) == EntriesOfSupermarket(supermarketId)

\* GET /inventory/supermarket/{supermarketId}
ListBySupermarket(supermarketId) ==
  /\ UNCHANGED <<store, creating, sl>>
  /\ IF ItemsInSupermarket(supermarketId) = {}
     THEN Respond("listBySupermarket", 0, 404, <<supermarketId>>, <<>>, {},
                  <<>>, 0)
     ELSE Respond("listBySupermarket", 0, 200, <<supermarketId>>, <<>>,
                  {Listing(e) : e \in ItemsInSupermarket(supermarketId)},
                  <<>>, 0)

\* ToProductCategory that takes every string for a member
ToProductCategoryAny(category) == category

\* toProductCategory: the enum member, or null
ToProductCategory(category) ==
  IF category \in Categories THEN category ELSE None

\* ProductList without the category filter
ProductListAnyCategory(city, categoryEnum) ==
  {p \in products : Offers(p.productId, city) # {}}

\* where: {productCategory: categoryEnum, inventory: {some: {supermarket:
\* {city}, inStock: true}}}
ProductList(city, categoryEnum) ==
  {p \in products :
     /\ p.productCategory = categoryEnum
     /\ Offers(p.productId, city) # {}}

\* GET /inventory/category/{city}/{productCategory}: per product of the
\* category with an offer in the city, the first offer by ascending price
ListCheapestByCategory(c, city, productCategory) ==
  /\ UNCHANGED <<store, creating, sl>>
  /\ IF ~CategoryAllowed(RoleOf(c))
     THEN Respond("category", c, 403, <<city, productCategory>>, <<>>, {},
                  <<>>, 0)
     ELSE IF ToProductCategory(productCategory) = None
     THEN Respond("category", c, 400, <<city, productCategory>>, <<>>, {},
                  <<>>, 0)
     ELSE LET listed == ProductList(city, ToProductCategory(productCategory))
              first == UNION {CheapestOffers(p.productId, city) : p \in listed}
          IN  \E take \in SUBSET first :
                /\ \A p \in listed :
                     Cardinality(take \cap EntriesOfProduct(p.productId)) = 1
                /\ Respond("category", c, 200, <<city, productCategory>>,
                           <<>>,
                           {[productName |-> ProductNameOf(e.productId),
                             price |-> e.price,
                             supermarketName |->
                               SupermarketNameOf(e.supermarketId)] :
                              e \in take},
                           <<>>, 0)

\* the responses of PATCH /inventory/{supermarketId}/{productId}
UpdateInventoryReply(c, supermarketId, productId, price, inStock, status) ==
  Respond("updateInventory", c, status,
          <<supermarketId, productId, price, inStock>>, <<>>, {}, <<>>, 0)

\* UpdatedInventory of an update that writes updatedBy only together with
\* a price
UpdatedInventoryStampWithPrice(old, c, price, inStock) ==
  [old EXCEPT !.price = Patched(@, price),
              !.inStock = Patched(@, inStock),
              !.updatedBy = IF price = Absent THEN @ ELSE c]

\* the row after prisma.inventory.update: one update statement writes
\* price, inStock and updatedBy
UpdatedInventory(old, c, price, inStock) ==
  [old EXCEPT !.price = Patched(@, price),
              !.inStock = Patched(@, inStock),
              !.updatedBy = c]

\* PATCH /inventory/{supermarketId}/{productId}: update throws when no row
\* has the pair
UpdateInventory(c, supermarketId, productId, price, inStock) ==
  /\ UNCHANGED <<creating, sl>>
  /\ IF ~UpdateInventoryAllowed(RoleOf(c))
     THEN UpdateInventoryReply(c, supermarketId, productId, price, inStock,
                               403)
          /\ UNCHANGED store
     ELSE IF EntriesAt(supermarketId, productId) = {}
     THEN UpdateInventoryReply(c, supermarketId, productId, price, inStock,
                               500)
          /\ UNCHANGED store
     ELSE LET old == CHOOSE e \in inventory :
                       /\ e.supermarketId = supermarketId
                       /\ e.productId = productId
              new == UpdatedInventory(old, c, price, inStock)
          IN  /\ inventory' = (inventory \ {old}) \cup {new}
              /\ UpdateInventoryReply(c, supermarketId, productId, price,
                                      inStock, 200)
              /\ UNCHANGED <<products, supermarkets, productSeq,
                             supermarketSeq>>

\* the responses of DELETE /inventory/{supermarketId}/{productId}
DeleteInventoryReply(c, supermarketId, productId, status) ==
  Respond("deleteInventory", c, status, <<supermarketId, productId>>, <<>>,
          {}, <<>>, 0)

\* DELETE /inventory/{supermarketId}/{productId}: delete throws when no row
\* has the pair
DeleteInventory(c, supermarketId, productId) ==
  /\ UNCHANGED <<creating, sl>>
  /\ IF ~DeleteInventoryAllowed(RoleOf(c))
     THEN DeleteInventoryReply(c, supermarketId, productId, 403)
          /\ UNCHANGED store
     ELSE IF ~KeyTaken(supermarketId, productId)
     THEN DeleteInventoryReply(c, supermarketId, productId, 500)
          /\ UNCHANGED store
     ELSE /\ inventory' = inventory \ EntriesAt(supermarketId, productId)
          /\ DeleteInventoryReply(c, supermarketId, productId, 204)
          /\ UNCHANGED <<products, supermarkets, productSeq, supermarketSeq>>

(***************************************************************************)
(* /shoppingList                                                           *)
(***************************************************************************)
\* the line pushed when findFirst returned the row e
FoundLine(item, e) ==
  [productName |-> ProductNameOf(e.productId),
   supermarketName |-> SupermarketNameOf(e.supermarketId),
   quantity |-> item.quantity,
   lowestPrice |-> e.price,
   subtotal |-> Subtotal(e.price, item.quantity)]

\* NotFoundLine whose name leaves out the city
NotFoundLineNoCity(item, city) ==
  [productName |-> "Product with ID " \o ToString(item.productId)
                     \o " not found",
   supermarketName |-> "N/A",
   quantity |-> item.quantity,
   lowestPrice |-> 0,
   subtotal |-> 0]

\* the line pushed when findFirst returned null
NotFoundLine(item, city) ==
  [productName |-> "Product with ID " \o ToString(item.productId)
                     \o " not found in " \o city,
   supermarketName |-> "N/A",
   quantity |-> item.quantity,
   lowestPrice |-> 0,
   subtotal |-> 0]

\* Push at the front of the array (unshift)
PushFront(lines, line) == <<line>> \o lines

\* shoppingItemsWithPrices.push(line)
Push(lines, line) == Append(lines, line)

\* reduce((accumulator, currentItem) => accumulator + currentItem.subtotal, 0)
RECURSIVE Reduce(_)
Reduce(lines) ==
  IF lines = <<>> THEN 0
  ELSE Reduce(SubSeq(lines, 1, Len(lines) - 1)) + lines[Len(lines)].subtotal

\* Total as the rounded sum of the unrounded products (round-of-sum)
RECURSIVE ReduceProducts(_)
ReduceProducts(lines) ==
  IF lines = <<>> THEN 0
  ELSE ReduceProducts(SubSeq(lines, 1, Len(lines) - 1))
         + lines[Len(lines)].lowestPrice * lines[Len(lines)].quantity

TotalOfProducts(lines) == ParseFloat(ToFixed2(ReduceProducts(lines), 0))

\* parseFloat(reduce(...).toFixed(2)): the addends are doubles next to whole
\* cents, and so is their sum
Total(lines) == ParseFloat(ToFixed2(Reduce(lines), 0))

\* the 201 response
ShoppingListDone(c, city, items, lines) ==
  Respond("shoppingList", c, 201,
          <<[city |-> city, shoppingItems |-> items]>>, <<>>, {}, lines,
          Total(lines))

\* ShoppingListFrame of a handler that deletes the ledger rows it has read
ShoppingListFrameWrites ==
  /\ inventory' = {e \in inventory : sl = Idle \/ e.productId \notin
                     {sl.shoppingItems[i].productId :
                        i \in 1..Len(sl.shoppingItems)}}
  /\ UNCHANGED <<products, supermarkets, productSeq, supermarketSeq,
                 creating>>

\* the handler reads the store (findFirst) and writes nothing
ShoppingListFrame == UNCHANGED <<store, creating>>

\* InventoryItem with the order reversed (orderBy: {price: 'desc'})
InventoryItemDesc(productId, city) ==
  LET rows == {e \in inventory :
                 /\ \E s \in supermarkets :
                      s.supermarketId = e.supermarketId /\ s.city = city
                 /\ e.productId = productId
                 /\ e.inStock = TRUE}
  IN  {e \in rows : \A o \in rows : e.price >= o.price}

\* InventoryItem without inStock: true in its where
InventoryItemAnyStock(productId, city) ==
  LET rows == {e \in inventory :
                 /\ \E s \in supermarkets :
                      s.supermarketId = e.supermarketId /\ s.city = city
                 /\ e.productId = productId}
  IN  {e \in rows : \A o \in rows : e.price <= o.price}

\* inventoryItem = findFirst({where: {supermarket: {city}, productId,
\* inStock: true}, orderBy: {price: 'asc'}}): the rows it may return
InventoryItem(productId, city) ==
  LET rows == {e \in inventory :
                 /\ \E s \in supermarkets :
                      s.supermarketId = e.supermarketId /\ s.city = city
                 /\ e.productId = productId
                 /\ e.inStock = TRUE}
  IN  {e \in rows : \A o \in rows : e.price <= o.price}

\* POST /shoppingList up to its first await.  A body without shoppingItems
\* makes the for loop throw, and the catch answers 500.
ShoppingList(c, body) ==
  /\ sl = Idle
  /\ ShoppingListFrame
  /\ IF "shoppingItems" \notin DOMAIN body
     THEN /\ Respond("shoppingList", c, 500, <<body>>, <<>>, {}, <<>>, 0)
          /\ UNCHANGED sl
     ELSE IF body.shoppingItems = <<>>
     THEN ShoppingListDone(c, body.city, body.shoppingItems, <<>>)
          /\ UNCHANGED sl
     ELSE /\ sl' = [stage |-> "loop", caller |-> c, city |-> body.city,
                    shoppingItems |-> body.shoppingItems, lines |-> <<>>]
          /\ UNCHANGED resp

\* one turn of the for loop, from the answer of findFirst to the next await,
\* or to the response after the last item
ShoppingListLookup ==
  /\ sl # Idle
  /\ ShoppingListFrame
  /\ LET item == sl.shoppingItems[Len(sl.lines) + 1]
         found == InventoryItem(item.productId, sl.city)
     IN  \E line \in IF found = {} THEN {NotFoundLine(item, sl.city)}
                     ELSE {FoundLine(item, e) : e \in found} :
           LET lines == Push(sl.lines, line)
           IN  IF Len(lines) < Len(sl.shoppingItems)
               THEN sl' = [sl EXCEPT !.lines = lines] /\ UNCHANGED resp
               ELSE /\ ShoppingListDone(sl.caller, sl.city, sl.shoppingItems,
                                        lines)
                    /\ sl' = Idle

(***************************************************************************)
(* Requests: every route, with its inputs drawn from the sets of d.        *)
(***************************************************************************)
OrAbsent(S) == {Absent} \cup {<<v>> : v \in S}

ItemLists(pids, quantities) ==
  UNION {[1..n -> [productId : pids, quantity : quantities]] :
           n \in 0..MaxLines}

Bodies(d) ==
  {[city |-> city] : city \in d.cities} \cup
  {[city |-> city, shoppingItems |-> items] :
     city \in d.cities, items \in ItemLists(d.pids, d.quantities)}

ProductRequest(d) ==
  \/ \E c \in d.users, name \in d.names, cat \in d.categories :
       CreateProduct(c, name, cat, "")
  \/ \E call \in creating : CreateProductWrite(call)
  \/ ListProducts
  \/ \E id \in ProductIds : GetProduct(id)
  \/ \E c \in d.users, id \in ProductIds, name \in OrAbsent(d.names),
        cat \in OrAbsent(d.categories), comments \in OrAbsent(d.comments) :
       UpdateProduct(c, id, name, cat, comments)
  \/ \E c \in d.users, id \in ProductIds : DeleteProduct(c, id)

SupermarketRequest(d) ==
  \/ \E c \in d.users, name \in d.supermarketNames, city \in d.cities :
       CreateSupermarket(c, name, "", city)
  \/ \E c \in d.users : ListSupermarkets(c)
  \/ \E c \in d.users, id \in SupermarketIds : GetSupermarket(c, id)
  \/ \E c \in d.users, id \in SupermarketIds,
        name \in OrAbsent(d.supermarketNames), city \in OrAbsent(d.cities) :
       UpdateSupermarket(c, id, name, Absent, city)
  \/ \E c \in d.users, id \in SupermarketIds : DeleteSupermarket(c, id)

InventoryRequest(d) ==
  \/ \E c \in d.users, price \in d.prices, pid \in d.pids, sid \in d.sids :
       CreateInventory(c, price, pid, sid)
  \/ \E c \in d.users : ListInventory(c)
  \/ \E c \in d.users, pid \in d.pids, city \in d.cities :
       Cheapest(c, pid, city)
  \/ \E sid \in d.sids : ListBySupermarket(sid)
  \/ \E c \in d.users, city \in d.cities, cat \in d.categories \cup {"TOYS"} :
       ListCheapestByCategory(c, city, cat)
  \/ \E c \in d.users, sid \in d.sids, pid \in d.pids,
        price \in OrAbsent(d.prices), inStock \in OrAbsent(BOOLEAN) :
       UpdateInventory(c, sid, pid, price, inStock)
  \/ \E c \in d.users, sid \in d.sids, pid \in d.pids :
       DeleteInventory(c, sid, pid)

ShoppingListRequest(d) ==
  \/ \E c \in d.users, body \in Bodies(d) : ShoppingList(c, body)
  \/ ShoppingListLookup

(***************************************************************************)
(* Spec: the whole API on an empty database, every role calling.           *)
(***************************************************************************)
Init ==
  /\ products = {}
  /\ supermarkets = {}
  /\ inventory = {}
  /\ productSeq = 0
  /\ supermarketSeq = 0
  /\ creating = {}
  /\ sl = Idle
  /\ resp = NoResponse

Api ==
  [users |-> UserIds, pids |-> {1}, sids |-> {1},
   names |-> {"milk"}, categories |-> {"DAIRY"}, comments |-> {},
   supermarketNames |-> {"Fresh Mart"}, cities |-> {"New York"},
   prices |-> {3500}, quantities |-> {1}]

Next ==
  \/ ProductRequest(Api)
  \/ SupermarketRequest(Api)
  \/ InventoryRequest(Api)
  \/ ShoppingListRequest([Api EXCEPT !.users = {1}])

Spec == Init /\ [][Next]_vars

(***************************************************************************)
(* SpecLedger: the inventory routes over a catalog of two products and two *)
(* supermarkets, the second one in either city.                            *)
(***************************************************************************)
CatalogProducts ==
  {[productId |-> 1, productName |-> "milk", productCategory |-> "DAIRY",
    productComments |-> "", createdBy |-> 3, updatedBy |-> 3],
   [productId |-> 2, productName |-> "rice", productCategory |-> "GRAINS",
    productComments |-> "", createdBy |-> 3, updatedBy |-> 3]}

CatalogSupermarkets(city) ==
  {[supermarketId |-> 1, supermarketName |-> "Fresh Mart",
    supermarketComments |-> "", city |-> "New York",
    createdBy |-> 3, updatedBy |-> 3],
   [supermarketId |-> 2, supermarketName |-> "Save More",
    supermarketComments |-> "", city |-> city,
    createdBy |-> 3, updatedBy |-> 3]}

InitCatalog ==
  /\ products = CatalogProducts
  /\ \E city \in Cities : supermarkets = CatalogSupermarkets(city)
  /\ productSeq = 2
  /\ supermarketSeq = 2
  /\ creating = {}
  /\ sl = Idle
  /\ resp = NoResponse

InitLedger == InitCatalog /\ inventory = {}

Ledger ==
  [users |-> {3}, pids |-> {1, 2}, sids |-> {1, 2, 3},
   names |-> ProductNames, categories |-> Categories, comments |-> {},
   supermarketNames |-> SupermarketNames, cities |-> Cities,
   prices |-> {1005, 3500}, quantities |-> Quantities]

NextLedger == InventoryRequest(Ledger)

SpecLedger == InitLedger /\ [][NextLedger]_vars

(***************************************************************************)
(* SpecResolve: the shopping-list route over every ledger of that catalog. *)
(***************************************************************************)
\* the rows a ledger may hold at one key: any of three for the first
\* product, one for the second product at the first supermarket
LedgerRows(sid, pid) ==
  {[supermarketId |-> sid, productId |-> pid, price |-> o[1],
    inStock |-> o[2], createdBy |-> 3, updatedBy |-> 3] :
     o \in IF pid = 1
           THEN {<<1005, TRUE>>, <<3500, TRUE>>, <<1005, FALSE>>}
           ELSE IF sid = 1 THEN {<<3500, TRUE>>} ELSE {}}

\* the ledgers: at most one row per (supermarketId, productId)
Ledgers ==
  {l \in SUBSET UNION {LedgerRows(k[1], k[2]) : k \in {1, 2} \X {1, 2}} :
     \A a, b \in l :
       a.supermarketId = b.supermarketId /\ a.productId = b.productId
         => a = b}

InitResolve == InitCatalog /\ inventory \in Ledgers

Resolve ==
  [users |-> {1}, pids |-> ProductIds, sids |-> {1, 2},
   names |-> ProductNames, categories |-> Categories, comments |-> {},
   supermarketNames |-> SupermarketNames, cities |-> {"New York"},
   prices |-> Prices, quantities |-> Quantities]

NextResolve == ShoppingListRequest(Resolve)

SpecResolve == InitResolve /\ [][NextResolve]_vars

(***************************************************************************)
(* SpecProducts: the product routes on an empty database, with patches     *)
(* that carry names, categories and comments (the empty string too).       *)
(***************************************************************************)
Catalog ==
  [users |-> UserIds, pids |-> ProductIds, sids |-> SupermarketIds,
   names |-> ProductNames, categories |-> {"DAIRY"},
   comments |-> {"", "fresh"},
   supermarketNames |-> SupermarketNames, cities |-> Cities,
   prices |-> Prices, quantities |-> Quantities]

CatalogPatches == [Catalog EXCEPT !.categories = Categories]

NextProducts ==
  \/ \E c \in Catalog.users, name \in Catalog.names,
        cat \in Catalog.categories :
       CreateProduct(c, name, cat, "")
  \/ \E call \in creating : CreateProductWrite(call)
  \/ \E c \in CatalogPatches.users, id \in ProductIds,
        name \in OrAbsent(CatalogPatches.names),
        cat \in OrAbsent(CatalogPatches.categories),
        comments \in OrAbsent(CatalogPatches.comments) :
       UpdateProduct(c, id, name, cat, comments)
  \/ \E c \in Catalog.users, id \in ProductIds : DeleteProduct(c, id)

SpecProducts == Init /\ [][NextProducts]_vars

(***************************************************************************)
(* SpecPrices: the ledger writes on the catalog, with prices of either     *)
(* sign in the bodies.                                                     *)
(***************************************************************************)
Signed ==
  [users |-> {2, 3}, pids |-> {1}, sids |-> {1, 2},
   names |-> ProductNames, categories |-> Categories, comments |-> {},
   supermarketNames |-> SupermarketNames, cities |-> {"New York"},
   prices |-> {-500, 0, 3500}, quantities |-> {-1, 0, 1}]

NextPrices == InventoryRequest(Signed)

SpecPrices == InitLedger /\ [][NextPrices]_vars

(***************************************************************************)
(* SpecQuantities: the shopping-list route over the ledgers, with          *)
(* quantities of either sign in the lines.                                 *)
(***************************************************************************)
NextQuantities == ShoppingListRequest([Signed EXCEPT !.users = {1}])

SpecQuantities == InitResolve /\ [][NextQuantities]_vars

(***************************************************************************)
(* SpecStamps: the update routes on the catalog, called by a VERIFIED user *)
(* and by an ADMIN other than the one who created the catalog.             *)
(***************************************************************************)
Stamps ==
  [users |-> {2, 4}, pids |-> {1}, sids |-> {1},
   names |-> {}, categories |-> {"GRAINS"}, comments |-> {},
   supermarketNames |-> {}, cities |-> {"Boston"},
   prices |-> {1005, 3500}, quantities |-> {1}]

NextStamps ==
  \/ \E c \in Stamps.users, id \in Stamps.pids,
        cat \in OrAbsent(Stamps.categories) :
       UpdateProduct(c, id, Absent, cat, Absent)
  \/ \E c \in Stamps.users, id \in Stamps.sids,
        city \in OrAbsent(Stamps.cities) :
       UpdateSupermarket(c, id, Absent, Absent, city)
  \/ \E c \in Stamps.users, price \in Stamps.prices, pid \in Stamps.pids,
        sid \in Stamps.sids :
       CreateInventory(c, price, pid, sid)
  \/ \E c \in Stamps.users, sid \in Stamps.sids, pid \in Stamps.pids,
        price \in OrAbsent(Stamps.prices), inStock \in OrAbsent(BOOLEAN) :
       UpdateInventory(c, sid, pid, price, inStock)

SpecStamps == InitLedger /\ [][NextStamps]_vars

(***************************************************************************)
(* SpecWrites: the writes of one ledger pair by a VERIFIED and an ADMIN    *)
(* caller.  POST bodies carry the price of Listed, PATCH bodies a price of *)
(* Writes.prices or none, so that a price of Writes.prices in the entry    *)
(* was written by a PATCH.                                                 *)
(***************************************************************************)
Writes ==
  [users |-> {2, 3}, pids |-> {1}, sids |-> {1},
   names |-> {}, categories |-> {}, comments |-> {},
   supermarketNames |-> {}, cities |-> {},
   prices |-> {1000, 2000}, quantities |-> {}]

Listed == {3500}

NextWrites ==
  \/ \E c \in Writes.users, price \in Listed, pid \in Writes.pids,
        sid \in Writes.sids :
       CreateInventory(c, price, pid, sid)
  \/ \E c \in Writes.users, sid \in Writes.sids, pid \in Writes.pids,
        price \in OrAbsent(Writes.prices), inStock \in OrAbsent(BOOLEAN) :
       UpdateInventory(c, sid, pid, price, inStock)
  \/ \E c \in Writes.users, sid \in Writes.sids, pid \in Writes.pids :
       DeleteInventory(c, sid, pid)

SpecWrites == InitLedger /\ [][NextWrites]_vars

(***************************************************************************)
(* SpecLive: the reads of the ledger (cheapest, category, shopping list)   *)
(* between the writes that change their answers: ledger entries created,   *)
(* updated and deleted, supermarkets moved to another city.                *)
(***************************************************************************)
Live ==
  [users |-> {4}, pids |-> {1}, sids |-> {1, 2},
   names |-> {}, categories |-> {"DAIRY"}, comments |-> {},
   supermarketNames |-> {}, cities |-> Cities,
   prices |-> {1005, 3500}, quantities |-> {1}]

NextLive ==
  \/ \E c \in Live.users, price \in Live.prices, pid \in Live.pids,
        sid \in Live.sids :
       CreateInventory(c, price, pid, sid)
  \/ \E c \in Live.users, sid \in Live.sids, pid \in Live.pids,
        price \in OrAbsent(Live.prices), inStock \in OrAbsent(BOOLEAN) :
       UpdateInventory(c, sid, pid, price, inStock)
  \/ \E c \in Live.users, sid \in Live.sids, pid \in Live.pids :
       DeleteInventory(c, sid, pid)
  \/ \E c \in Live.users, id \in Live.sids, city \in Live.cities :
       UpdateSupermarket(c, id, Absent, Absent, <<city>>)
  \/ \E c \in Live.users, pid \in Live.pids, city \in Live.cities :
       Cheapest(c, pid, city)
  \/ \E c \in Live.users, city \in Live.cities, cat \in Live.categories :
       ListCheapestByCategory(c, city, cat)
  \/ ShoppingListRequest(Live)

SpecLive == InitLedger /\ [][NextLive]_vars

(***************************************************************************)
(* Properties.                                                             *)
(***************************************************************************)
\* the in-stock entries of a product in the supermarkets of a city
InStockInCity(productId, city) ==
  {e \in inventory :
     /\ e.productId = productId
     /\ e.inStock
     /\ \E s \in supermarkets :
          s.supermarketId = e.supermarketId /\ s.city = city}

\* the listing or line names the entry e and its price
Names(x, price, e) ==
  /\ price = e.price
  /\ \E s \in supermarkets :
       s.supermarketId = e.supermarketId
         /\ x.supermarketName = s.supermarketName
  /\ \E p \in products :
       p.productId = e.productId /\ x.productName = p.productName

\* C1: when a product has in-stock entries in the city, GET
\* /inventory/cheapest answers 200 with one of them, and none of them is
\* cheaper than the one returned.
C1_CheapestIsMinimum ==
  resp.op = "cheapest" /\ resp.status # 403 =>
    LET offers == InStockInCity(resp.req[1], resp.req[2])
    IN  offers # {} =>
          /\ resp.status = 200
          /\ \E e \in offers :
               /\ Names(resp.row[1], resp.row[1].price, e)
               /\ \A o \in offers : e.price <= o.price

C1_Witness ==
  /\ resp.op = "cheapest"
  /\ resp.status = 200
  /\ \E a, b \in InStockInCity(resp.req[1], resp.req[2]) : a.price < b.price

\* a 201 response of POST /shoppingList, its request and its lines
Resolved == resp.op = "shoppingList" /\ resp.status = 201
ReqCity == resp.req[1].city
ReqItems == resp.req[1].shoppingItems

\* the line is the placeholder of an item without offer
IsPlaceholder(line, item, city) ==
  line = [productName |-> "Product with ID " \o ToString(item.productId)
                            \o " not found in " \o city,
          supermarketName |-> "N/A", quantity |-> item.quantity,
          lowestPrice |-> 0, subtotal |-> 0]

\* the line is a resolution of the item: the placeholder when the product
\* has no in-stock entry in the city, else a cheapest one of these entries
ResolutionOf(line, item, city) ==
  LET offers == InStockInCity(item.productId, city)
  IN  IF offers = {}
      THEN line.supermarketName = "N/A" /\ line.lowestPrice = 0
           /\ line.productName = "Product with ID "
                \o ToString(item.productId) \o " not found in " \o city
      ELSE \E e \in offers :
             /\ Names(line, line.lowestPrice, e)
             /\ \A o \in offers : e.price <= o.price

\* C2: a successful shopping list of N lines answers N lines, and the i-th
\* line carries the quantity of the i-th input line and the resolution of
\* its productId.
C2_LinesInOrder ==
  Resolved =>
    /\ Len(resp.lines) = Len(ReqItems)
    /\ \A i \in 1..Len(ReqItems) :
         /\ resp.lines[i].quantity = ReqItems[i].quantity
         /\ ResolutionOf(resp.lines[i], ReqItems[i], ReqCity)

C2_Witness ==
  /\ Resolved
  /\ Len(resp.lines) = 2
  /\ ReqItems[1].productId # ReqItems[2].productId
  /\ ReqItems[1].quantity # ReqItems[2].quantity
  /\ resp.lines[1].supermarketName # "N/A"
  /\ resp.lines[2].supermarketName # "N/A"

\* the sum of the subtotals of the lines, and of their unrounded products
RECURSIVE SumSubtotals(_, _)
SumSubtotals(lines, n) ==
  IF n = 0 THEN 0 ELSE SumSubtotals(lines, n - 1) + lines[n].subtotal

RECURSIVE SumProducts(_, _)
SumProducts(lines, n) ==
  IF n = 0 THEN 0
  ELSE SumProducts(lines, n - 1) + lines[n].lowestPrice * lines[n].quantity

\* C3: the total of a successful shopping list is the sum of the rounded
\* subtotals of its lines, rounded to two decimals; a line without offer
\* adds 0.
C3_TotalIsSumOfRounded ==
  Resolved =>
    /\ resp.total = RoundHalfUp2(SumSubtotals(resp.lines, Len(resp.lines)))
    /\ \A i \in 1..Len(resp.lines) :
         resp.lines[i].supermarketName = "N/A" => resp.lines[i].subtotal = 0

\* the rounded sum of the unrounded products differs from the total
C3_Witness ==
  /\ Resolved
  /\ Len(resp.lines) = 2
  /\ resp.total # RoundHalfUp2(SumProducts(resp.lines, 2))
  /\ resp.total > 0

\* C4: a line whose product has no in-stock entry in the city is the
\* placeholder value, the request still answers 201, and every other line
\* is the resolution of its own item alone.
C4_SoftFailPerLine ==
  /\ resp.op = "shoppingList" /\ "shoppingItems" \in DOMAIN resp.req[1]
       => resp.status = 201
  /\ Resolved =>
       /\ Len(resp.lines) = Len(ReqItems)
       /\ \A i \in 1..Len(ReqItems) :
            IF InStockInCity(ReqItems[i].productId, ReqCity) = {}
            THEN IsPlaceholder(resp.lines[i], ReqItems[i], ReqCity)
            ELSE /\ ResolutionOf(resp.lines[i], ReqItems[i], ReqCity)
                 /\ resp.lines[i].subtotal =
                      Subtotal(resp.lines[i].lowestPrice,
                               ReqItems[i].quantity)

C4_Witness ==
  /\ Resolved
  /\ Len(resp.lines) = 2
  /\ InStockInCity(ReqItems[1].productId, ReqCity) = {}
  /\ resp.lines[1].supermarketName = "N/A"
  /\ resp.lines[2].supermarketName # "N/A"
  /\ resp.total > 0

\* C7 (as claimed): the subtotal of every found line is lowestPrice x
\* quantity rounded half-up to two decimals, lowestPrice being the price of
\* the cheapest in-stock entry of the product in the city.
C7_SubtotalRoundsHalfUp ==
  Resolved =>
    \A i \in 1..Len(resp.lines) :
      resp.lines[i].supermarketName # "N/A" =>
        /\ resp.lines[i].subtotal =
             RoundHalfUp2(resp.lines[i].lowestPrice * resp.lines[i].quantity)
        /\ \A o \in InStockInCity(ReqItems[i].productId, ReqCity) :
             resp.lines[i].lowestPrice <= o.price

\* a step of the shopping-list handler: it moves sl or sends its response
ShoppingListStep ==
  \/ sl' # sl
  \/ resp'.op = "shoppingList" /\ resp' # resp

\* C8: a shopping-list resolution, successful or failed, leaves products,
\* supermarkets and ledger entries as they are, and once it has answered
\* nothing of the list remains.
C8_ResolutionStoresNothing ==
  [][ShoppingListStep =>
        /\ store' = store
        /\ resp' # resp => sl' = Idle]_vars

C8_Witness ==
  /\ Resolved
  /\ Len(resp.lines) = 2
  /\ resp.lines[2].supermarketName # "N/A"
  /\ inventory # {}

\* C9 (as claimed): with the store unchanged in between, two GET
\* /inventory/cheapest calls in a row with the same productId and city
\* return the same entry.
C9_TieBreakStable ==
  [][/\ resp.op = "cheapest" /\ resp.status = 200
     /\ resp'.op = "cheapest" /\ resp'.status = 200
     /\ resp'.req = resp.req
     /\ resp'.caller = resp.caller
     /\ store' = store
     => resp'.row = resp.row]_vars

\* no two products share a name
UniqueNames ==
  \A p, q \in products : p.productName = q.productName => p = q

\* C5: no state has two products of one name; a createProduct call whose
\* name is taken when looked up is answered 400 and goes no further, and a
\* call whose name is taken when it creates answers an error; neither adds
\* a row.
C5_NoDuplicateProduct ==
  [][/\ UniqueNames'
     /\ \A call \in creating' \ creating :
          ProductsNamed(call.productName) = {}
     /\ resp'.op = "createProduct" /\ resp' # resp =>
          /\ resp'.status = 201 =>
               /\ ProductsNamed(resp'.req[1]) = {}
               /\ \E p \in products' \ products :
                    p.productName = resp'.req[1]
          /\ ProductsNamed(resp'.req[1]) # {} =>
               /\ resp'.status \in {400, 403, 500}
               /\ products' = products
               /\ resp'.status = 400 <=>
                    creating' = creating
                      /\ RoleOf(resp'.caller) # "BASIC"]_vars

C5_Witness ==
  /\ resp.op = "createProduct"
  /\ resp.status = 400
  /\ \E p \in products : p.productName = resp.req[1]

\* C6: POST, PATCH and DELETE /supermarket by a caller who is not ADMIN
\* answer 403 and leave the supermarkets, and the rest of the store, as
\* they are.
C6_SupermarketWritesNeedAdmin ==
  [][/\ resp'.op \in {"createSupermarket", "updateSupermarket",
                      "deleteSupermarket"}
     /\ RoleOf(resp'.caller) # "ADMIN"
     => resp'.status = 403 /\ supermarkets' = supermarkets
          /\ store' = store]_vars

C6_Witness ==
  /\ resp.op = "updateSupermarket"
  /\ RoleOf(resp.caller) = "BASIC"
  /\ resp.status = 403
  /\ supermarkets # {}

RoleRank(role) ==
  CASE role = "BASIC" -> 1 [] role = "VERIFIED" -> 2 [] role = "ADMIN" -> 3

\* C10: on every route with a role check, a caller whose role is at least
\* the role of a caller the route let through is let through too.
C10_GatingMonotone ==
  [][/\ resp.caller \in UserIds /\ resp'.caller \in UserIds
     /\ resp'.op = resp.op
     /\ RoleRank(RoleOf(resp.caller)) <= RoleRank(RoleOf(resp'.caller))
     /\ resp.status # 403
     => resp'.status # 403]_vars

C10_Witness ==
  /\ resp.op = "createInventory"
  /\ RoleOf(resp.caller) = "VERIFIED"
  /\ resp.status = 201

\* what PATCH /products/{id} may write of a product, besides updatedBy
ProductContent(p) ==
  [productId |-> p.productId, productName |-> p.productName,
   productCategory |-> p.productCategory,
   productComments |-> p.productComments]

\* C11: PATCH /products/{id} by a VERIFIED caller leaves name, category and
\* comments of every product as they are whatever the body carries, answers
\* 200 when the product exists and then the product's updatedBy is the
\* caller; a product's name, category or comments change only in a PATCH by
\* an ADMIN caller.
C11_VerifiedPatchKeepsFields ==
  [][/\ resp'.op = "updateProduct" /\ RoleOf(resp'.caller) = "VERIFIED" =>
          /\ {ProductContent(p) : p \in products'}
               = {ProductContent(p) : p \in products}
          /\ (\E p \in products : p.productId = resp'.req[1]) =>
               /\ resp'.status = 200
               /\ \E p \in products' :
                    /\ p.productId = resp'.req[1]
                    /\ p.updatedBy = resp'.caller
     /\ (\E p \in products, q \in products' :
           /\ p.productId = q.productId
           /\ ProductContent(p) # ProductContent(q)) =>
          /\ resp'.op = "updateProduct"
          /\ resp'.status = 200
          /\ RoleOf(resp'.caller) = "ADMIN"]_vars

C11_Witness ==
  /\ resp.op = "updateProduct"
  /\ RoleOf(resp.caller) = "VERIFIED"
  /\ resp.status = 200
  /\ resp.req[2] # Absent /\ resp.req[3] # Absent /\ resp.req[4] = <<"fresh">>
  /\ \E p \in products :
       /\ p.productId = resp.req[1]
       /\ p.productName # resp.req[2][1]
       /\ p.productCategory # resp.req[3][1]
       /\ p.productComments # "fresh"
       /\ p.updatedBy = resp.caller
       /\ p.createdBy # resp.caller

\* C12: POST /products, PATCH /products/{id}, POST /inventory and PATCH
\* /inventory/{supermarketId}/{productId} by a caller who is neither VERIFIED
\* nor ADMIN, and DELETE /products/{id} and DELETE
\* /inventory/{supermarketId}/{productId} by a caller who is not ADMIN,
\* answer 403 and leave the store as it is.
C12_MutatorsNeedRole ==
  [][/\ /\ resp'.op \in {"createProduct", "updateProduct",
                         "createInventory", "updateInventory"}
        /\ RoleOf(resp'.caller) \notin {"VERIFIED", "ADMIN"}
        => resp'.status = 403 /\ store' = store
     /\ /\ resp'.op \in {"deleteProduct", "deleteInventory"}
        /\ RoleOf(resp'.caller) # "ADMIN"
        => resp'.status = 403 /\ store' = store]_vars

C12_Witness ==
  /\ resp.op = "deleteInventory"
  /\ RoleOf(resp.caller) = "VERIFIED"
  /\ resp.status = 403
  /\ inventory # {}

\* C13: POST /inventory whose productId or supermarketId names no row
\* answers an error (500 to a permitted caller) and adds no ledger entry.
C13_CreateInventoryNeedsBothRows ==
  [][/\ resp'.op = "createInventory"
     /\ \/ ~\E p \in products : p.productId = resp'.req[1]
        \/ ~\E m \in supermarkets : m.supermarketId = resp'.req[2]
     => /\ resp'.status \in {403, 500}
        /\ RoleOf(resp'.caller) \in {"VERIFIED", "ADMIN"}
             => resp'.status = 500
        /\ inventory' = inventory]_vars

C13_Witness ==
  /\ resp.op = "createInventory"
  /\ RoleOf(resp.caller) = "ADMIN"
  /\ resp.status = 500
  /\ ~\E p \in products : p.productId = resp.req[1]
  /\ \E m \in supermarkets : m.supermarketId = resp.req[2]

\* C14: a 200 answer of GET /inventory/category/{city}/{productCategory} has
\* exactly one element for each product of the category with an in-stock
\* entry in the city, none for any other product, and each element carries
\* the lowest price of the product's in-stock entries in the city with the
\* name of a supermarket that offers it at that price.
C14_CheapestPerProductOfCategory ==
  resp.op = "category" /\ resp.status = 200 =>
    LET due == {p \in products :
                  /\ p.productCategory = resp.req[2]
                  /\ InStockInCity(p.productId, resp.req[1]) # {}}
    IN  /\ \A p \in due :
             \E r \in resp.rows :
               /\ r.productName = p.productName
               /\ \A q \in resp.rows : q.productName = r.productName => q = r
               /\ \E e \in InStockInCity(p.productId, resp.req[1]) :
                    /\ Names(r, r.price, e)
                    /\ \A o \in InStockInCity(p.productId, resp.req[1]) :
                         e.price <= o.price
        /\ \A r \in resp.rows : \E p \in due : r.productName = p.productName

C14_Witness ==
  /\ resp.op = "category"
  /\ resp.status = 200
  /\ resp.rows # {}
  /\ \E p, q \in products :
       /\ p.productCategory = resp.req[2]
       /\ q.productCategory # resp.req[2]
       /\ InStockInCity(q.productId, resp.req[1]) # {}
       /\ \E a, b \in InStockInCity(p.productId, resp.req[1]) :
            a.price < b.price

\* C15: GET /inventory/category/{city}/{productCategory} by a VERIFIED or
\* ADMIN caller with a category outside the enumeration answers 400 with no
\* list, whatever the store holds.
C15_InvalidCategoryIs400 ==
  resp.op = "category" /\ RoleOf(resp.caller) \in {"VERIFIED", "ADMIN"} =>
    /\ resp.status # 403
    /\ resp.req[2] \notin Categories =>
         /\ resp.status = 400
         /\ resp.rows = {}
         /\ resp.row = <<>>

C15_Witness ==
  /\ resp.op = "category"
  /\ RoleOf(resp.caller) = "ADMIN"
  /\ resp.status = 400
  /\ resp.req[2] \notin Categories
  /\ \E e \in inventory : InStockInCity(e.productId, resp.req[1]) # {}

\* C16: GET /inventory/supermarket/{supermarketId} answers 404 exactly when
\* no ledger entry has the supermarketId, whether or not a supermarket has
\* it, and 200 otherwise with one element per entry of the supermarket and
\* no other element.
C16_ListBySupermarket ==
  resp.op = "listBySupermarket" =>
    LET entries == {e \in inventory : e.supermarketId = resp.req[1]}
    IN  /\ resp.status = 404 <=> entries = {}
        /\ resp.status = 404 => resp.rows = {}
        /\ entries # {} =>
             /\ resp.status = 200
             /\ Cardinality(resp.rows) = Cardinality(entries)
             /\ \A e \in entries :
                  \E r \in resp.rows :
                    Names(r, r.price, e) /\ r.inStock = e.inStock

C16_Witness ==
  /\ resp.op = "listBySupermarket"
  /\ resp.status = 200
  /\ Cardinality(resp.rows) = 2
  /\ \E e \in inventory : e.supermarketId # resp.req[1]

\* C17: no state has two ledger entries with the same supermarketId and
\* productId.
C17_OneEntryPerPair ==
  \A a, b \in inventory :
    a.supermarketId = b.supermarketId /\ a.productId = b.productId => a = b

C17_Witness ==
  /\ resp.op = "createInventory"
  /\ RoleOf(resp.caller) = "ADMIN"
  /\ resp.status = 500
  /\ \E e \in inventory :
       /\ e.productId = resp.req[1]
       /\ e.supermarketId = resp.req[2]
       /\ e.price # resp.req[3]

\* C18 (as claimed): every ledger entry has a price of at least 0.
C18_PriceNonNegative ==
  \A e \in inventory : e.price >= 0

\* C19 (as claimed): every line the resolver found an offer for has a
\* quantity above 0, and no subtotal and no total is below 0.
C19_QuantityPositive ==
  Resolved =>
    /\ \A i \in 1..Len(resp.lines) :
         /\ resp.lines[i].supermarketName # "N/A"
              => resp.lines[i].quantity > 0
         /\ resp.lines[i].subtotal >= 0
    /\ resp.total >= 0

\* every ledger entry references a product and a supermarket of the store
RefIntegrity ==
  \A e \in inventory :
    /\ \E p \in products : p.productId = e.productId
    /\ \E m \in supermarkets : m.supermarketId = e.supermarketId

\* C20: every ledger entry references an existing product and an existing
\* supermarket in every state; a DELETE of a product or a supermarket either
\* removes the row together with the ledger entries that reference it, or
\* answers an error and leaves the store as it is.
C20_ReferentialIntegrity ==
  [][/\ RefIntegrity'
     /\ \A p \in products :
          (~\E q \in products' : q.productId = p.productId) =>
            ~\E e \in inventory' : e.productId = p.productId
     /\ \A m \in supermarkets :
          (~\E n \in supermarkets' : n.supermarketId = m.supermarketId) =>
            ~\E e \in inventory' : e.supermarketId = m.supermarketId
     /\ resp'.op \in {"deleteProduct", "deleteSupermarket"}
          /\ resp'.status # 200 => store' = store]_vars

C20_Witness ==
  /\ resp.op = "deleteProduct"
  /\ RoleOf(resp.caller) = "ADMIN"
  /\ resp.status = 500
  /\ \E p \in products : p.productId = resp.req[1]
  /\ \E e \in inventory : e.productId = resp.req[1]

\* C21 as stated: when a successful PATCH of a pair by one caller follows a
\* successful PATCH of the same pair by another caller, whose body carried
\* a price and inStock, the entry's price, inStock and updatedBy are all
\* those of the later call (its body's price, its body's inStock, its
\* caller), never a field the earlier call wrote.
C21_OneCallsFields ==
  [][(/\ resp.op = "updateInventory" /\ resp.status = 200
      /\ resp.req[3] # Absent /\ resp.req[4] # Absent
      /\ resp'.op = "updateInventory" /\ resp'.status = 200
      /\ resp'.req[1] = resp.req[1] /\ resp'.req[2] = resp.req[2]
      /\ resp'.caller # resp.caller) =>
       \E e \in inventory' :
         /\ e.supermarketId = resp'.req[1] /\ e.productId = resp'.req[2]
         /\ e.updatedBy = resp'.caller
         /\ resp'.req[3] = <<e.price>>
         /\ resp'.req[4] = <<e.inStock>>]_vars

\* C21, amended: every successful PATCH /inventory/{supermarketId}/{productId}
\* replaces the entry in one step by one whose updatedBy is its caller and
\* whose price and inStock are those of its body where the body carries the
\* field; a field the body leaves out keeps the value the entry had before
\* this write, which may be the one an earlier call wrote.  A call whose
\* body carries both fields leaves an entry that is entirely its own.
C21_LastWriteWins ==
  [][resp'.op = "updateInventory" /\ resp'.status = 200 =>
       \E old \in inventory, new \in inventory' :
         /\ old.supermarketId = resp'.req[1] /\ old.productId = resp'.req[2]
         /\ new.supermarketId = resp'.req[1] /\ new.productId = resp'.req[2]
         /\ inventory' \ {new} = inventory \ {old}
         /\ new.updatedBy = resp'.caller
         /\ new.price = IF resp'.req[3] = Absent THEN old.price
                        ELSE resp'.req[3][1]
         /\ new.inStock = IF resp'.req[4] = Absent THEN old.inStock
                          ELSE resp'.req[4][1]]_vars

\* the last call's body had no price: the entry carries its inStock and its
\* caller, and a price of Writes.prices, which an earlier PATCH wrote
C21_Witness ==
  /\ resp.op = "updateInventory"
  /\ resp.status = 200
  /\ resp.req[3] = Absent /\ resp.req[4] = <<FALSE>>
  /\ \E e \in inventory :
       /\ e.supermarketId = resp.req[1] /\ e.productId = resp.req[2]
       /\ e.updatedBy = resp.caller
       /\ e.createdBy # resp.caller
       /\ e.inStock = FALSE
       /\ e.price \in Writes.prices

\* the response of a GET /inventory/cheapest is the one the ledger and the
\* supermarkets of this state give
CheapestFresh(r) ==
  LET offers == InStockInCity(r.req[1], r.req[2])
  IN  /\ offers = {} => r.status = 404
      /\ offers # {} =>
           /\ r.status = 200
           /\ \E e \in offers :
                /\ Names(r.row[1], r.row[1].price, e)
                /\ \A o \in offers : e.price <= o.price

\* the response of a GET /inventory/category is the one this state gives
CategoryFresh(r) ==
  LET due == {p \in products :
                /\ p.productCategory = r.req[2]
                /\ InStockInCity(p.productId, r.req[1]) # {}}
  IN  /\ r.status = 200
      /\ \A x \in r.rows : \E p \in due : x.productName = p.productName
      /\ \A p \in due :
           \E x \in r.rows :
             /\ x.productName = p.productName
             /\ \E e \in InStockInCity(p.productId, r.req[1]) :
                  /\ Names(x, x.price, e)
                  /\ \A o \in InStockInCity(p.productId, r.req[1]) :
                       e.price <= o.price

\* a turn of the for loop of POST /shoppingList, the item it looks up and
\* the lines after it
LookupStep == sl # Idle /\ sl' # sl
LookupItem == sl.shoppingItems[Len(sl.lines) + 1]
LinesAfter == IF sl' = Idle THEN resp'.lines ELSE sl'.lines
LookupLine == LinesAfter[Len(sl.lines) + 1]

\* C22: every answer of GET /inventory/cheapest and of GET
\* /inventory/category, and every line a shopping list looks up, is computed
\* from the ledger and the supermarkets as they are when the read is made,
\* with every write that was answered before.
C22_NoStaleReads ==
  [][/\ resp'.op = "cheapest" /\ resp' # resp => CheapestFresh(resp')
     /\ resp'.op = "category" /\ resp' # resp => CategoryFresh(resp')
     /\ LookupStep =>
          /\ Len(LinesAfter) = Len(sl.lines) + 1
          /\ ResolutionOf(LookupLine, LookupItem, sl.city)]_vars

\* supermarket 1 was moved to Boston, and the answer names it for Boston
C22_Witness ==
  /\ resp.op = "cheapest"
  /\ resp.status = 200
  /\ resp.req[2] = "Boston"
  /\ resp.row[1].supermarketName = "Fresh Mart"
  /\ \E m \in supermarkets :
       /\ m.supermarketName = "Fresh Mart"
       /\ m.city = "Boston"
       /\ m.updatedBy # m.createdBy

\* C23: after a successful PATCH of a product, a supermarket or a ledger
\* entry the row's updatedBy is the caller, and no step changes the
\* createdBy of a row.
C23_UpdateStampsCaller ==
  [][/\ resp'.op = "updateProduct" /\ resp'.status = 200 =>
          \E p \in products' :
            p.productId = resp'.req[1] /\ p.updatedBy = resp'.caller
     /\ resp'.op = "updateSupermarket" /\ resp'.status = 200 =>
          \E m \in supermarkets' :
            m.supermarketId = resp'.req[1] /\ m.updatedBy = resp'.caller
     /\ resp'.op = "updateInventory" /\ resp'.status = 200 =>
          \E e \in inventory' :
            /\ e.supermarketId = resp'.req[1] /\ e.productId = resp'.req[2]
            /\ e.updatedBy = resp'.caller
     /\ \A p \in products, q \in products' :
          p.productId = q.productId => q.createdBy = p.createdBy
     /\ \A m \in supermarkets, n \in supermarkets' :
          m.supermarketId = n.supermarketId => n.createdBy = m.createdBy
     /\ \A e \in inventory, f \in inventory' :
          e.supermarketId = f.supermarketId /\ e.productId = f.productId
            => f.createdBy = e.createdBy]_vars

C23_Witness ==
  /\ resp.op = "updateSupermarket"
  /\ resp.status = 200
  /\ \E m \in supermarkets :
       /\ m.supermarketId = resp.req[1]
       /\ m.updatedBy = resp.caller
       /\ m.createdBy # resp.caller
  /\ \E p \in products : RoleOf(p.updatedBy) = "VERIFIED"
  /\ \E e \in inventory : e.updatedBy # e.createdBy

\* C24 (as claimed): a POST /products that creates no product because the
\* name is taken is answered 400, also when the name was taken after its
\* findUnique.
C24_RaceLoserGets400 ==
  resp.op = "createProduct" /\ resp.status \notin {201, 403}
    => resp.status = 400

\* C25 (as claimed): the lines of one shopping list with the same productId
\* carry the same lowestPrice, as they would if the whole list were resolved
\* against one ledger state.
C25_SnapshotConsistent ==
  Resolved =>
    \A i, j \in 1..Len(resp.lines) :
      ReqItems[i].productId = ReqItems[j].productId
        => resp.lines[i].lowestPrice = resp.lines[j].lowestPrice

\* C25 (amended): each turn of the for loop leaves the lines pushed so far
\* as they are and adds the line of its item, with the item's quantity,
\* resolved against the ledger of that turn; the handler writes nothing and
\* the total is the sum of the subtotals of these lines.
C25_PerLineConsistent ==
  [][LookupStep =>
       /\ SubSeq(LinesAfter, 1, Len(sl.lines)) = sl.lines
       /\ Len(LinesAfter) = Len(sl.lines) + 1
       /\ LookupLine.quantity = LookupItem.quantity
       /\ IF InStockInCity(LookupItem.productId, sl.city) = {}
          THEN IsPlaceholder(LookupLine, LookupItem, sl.city)
          ELSE \E e \in InStockInCity(LookupItem.productId, sl.city) :
                 /\ Names(LookupLine, LookupLine.lowestPrice, e)
                 /\ \A o \in InStockInCity(LookupItem.productId, sl.city) :
                      e.price <= o.price
       /\ store' = store
       /\ sl' = Idle =>
            /\ resp'.status = 201
            /\ resp'.total =
                 RoundHalfUp2(SumSubtotals(LinesAfter, Len(LinesAfter)))]_vars

\* two lines of one product, at two prices
C25_Witness ==
  /\ Resolved
  /\ Len(resp.lines) = 2
  /\ ReqItems[1].productId = ReqItems[2].productId
  /\ resp.lines[1].supermarketName # "N/A"
  /\ resp.lines[2].supermarketName # "N/A"
  /\ resp.lines[1].lowestPrice # resp.lines[2].lowestPrice

\* the entry is out of stock or its supermarket is not in the city
Excluded(e, city) ==
  \/ ~e.inStock
  \/ \E m \in supermarkets : m.supermarketId = e.supermarketId /\ m.city # city

\* the listing or line x for the product names the excluded entry e
NamesExcluded(x, price, productId, city) ==
  \E e \in inventory :
    /\ e.productId = productId
    /\ Excluded(e, city)
    /\ price = e.price
    /\ \E m \in supermarkets :
         m.supermarketId = e.supermarketId
           /\ x.supermarketName = m.supermarketName

\* C26: no answer of GET /inventory/cheapest, no element of GET
\* /inventory/category and no line of a shopping list names an entry that is
\* out of stock or in a supermarket of another city; a product with such
\* entries only is answered 404, left out of the list, and given the
\* placeholder line.
C26_ExcludedNeverReturned ==
  [][/\ resp'.op = "cheapest" /\ resp' # resp =>
          /\ resp'.status = 200 =>
               /\ resp'.row[1].inStock
               /\ ~NamesExcluded(resp'.row[1], resp'.row[1].price,
                                 resp'.req[1], resp'.req[2])
          /\ (\A e \in inventory :
                e.productId = resp'.req[1] => Excluded(e, resp'.req[2]))
               => resp'.status = 404
     /\ resp'.op = "category" /\ resp' # resp =>
          \A x \in resp'.rows :
            \A p \in products :
              p.productName = x.productName =>
                /\ ~NamesExcluded(x, x.price, p.productId, resp'.req[1])
                /\ \E e \in inventory :
                     e.productId = p.productId /\ ~Excluded(e, resp'.req[1])
     /\ LookupStep =>
          /\ LookupLine.supermarketName # "N/A" =>
               ~NamesExcluded(LookupLine, LookupLine.lowestPrice,
                              LookupItem.productId, sl.city)
          /\ (\A e \in inventory :
                e.productId = LookupItem.productId => Excluded(e, sl.city))
               => LookupLine.supermarketName = "N/A"]_vars

\* the only entries of the product: one out of stock in the city, one in
\* stock in the other city, the cheaper one among them
C26_Witness ==
  /\ resp.op = "cheapest"
  /\ resp.status = 404
  /\ \E e, f \in inventory :
       /\ e.productId = resp.req[1] /\ f.productId = resp.req[1]
       /\ ~e.inStock
       /\ \E m \in supermarkets :
            m.supermarketId = e.supermarketId /\ m.city = resp.req[2]
       /\ f.inStock
       /\ \E m \in supermarkets :
            m.supermarketId = f.supermarketId /\ m.city # resp.req[2]

\* C27: a turn of the for loop that looks up the productId and city GET
\* /inventory/cheapest has just answered for, on the same ledger, pushes a
\* found line exactly when that answer was not 404, and then with the price
\* of that answer.
C27_ResolverAgreesWithCheapest ==
  [][/\ LookupStep
     /\ resp.op = "cheapest" /\ resp.status # 403
     /\ resp.req[1] = LookupItem.productId
     /\ resp.req[2] = sl.city
     => /\ LookupLine.supermarketName # "N/A" <=> resp.status = 200
        /\ resp.status = 200 =>
             LookupLine.lowestPrice = resp.row[1].price]_vars

\* cheapest has answered with the lower of two prices and a shopping list
\* is about to look the same product up in the same city
C27_Witness ==
  /\ resp.op = "cheapest"
  /\ resp.status = 200
  /\ sl # Idle
  /\ sl.city = resp.req[2]
  /\ sl.shoppingItems[Len(sl.lines) + 1].productId = resp.req[1]
  /\ \E e \in InStockInCity(resp.req[1], resp.req[2]) :
       e.price > resp.row[1].price

\* the roles each gated route asks for
RequiredRoles(op) ==
  CASE op \in {"createProduct", "updateProduct", "createInventory",
               "updateInventory", "category"} -> {"VERIFIED", "ADMIN"}
    [] op \in {"deleteProduct", "deleteInventory", "createSupermarket",
               "updateSupermarket", "deleteSupermarket"} -> {"ADMIN"}
    [] OTHER -> {"BASIC", "VERIFIED", "ADMIN"}

\* C28: a call of a gated route by a caller without a required role is
\* answered 403 whatever its inputs and whatever the store holds (not 400
\* for an invalid category or a taken name, not 404 or 500 for a missing
\* row), nothing is written and no call goes on to a store access.
C28_RoleCheckFirst ==
  [][/\ resp'.caller \in UserIds
     /\ RoleOf(resp'.caller) \notin RequiredRoles(resp'.op)
     => /\ resp'.status = 403
        /\ store' = store
        /\ \A call \in creating' :
             RoleOf(call.caller) \in RequiredRoles("createProduct")]_vars

C28_Witness ==
  /\ resp.op = "category"
  /\ RoleOf(resp.caller) = "BASIC"
  /\ resp.status = 403
  /\ resp.req[2] \notin Categories

\* C29: a PATCH or DELETE by a permitted caller that names a product, a
\* supermarket or a ledger entry that is not there is answered 500, not 404,
\* and leaves the store as it is (the step that sends the response is the
\* one that changes resp).
C29_MissingTargetIs500 ==
  [][/\ /\ resp'.op \in {"updateProduct", "deleteProduct"}
        /\ resp' # resp
        /\ RoleOf(resp'.caller) \in RequiredRoles(resp'.op)
        /\ ~\E p \in products : p.productId = resp'.req[1]
        => resp'.status = 500 /\ store' = store
     /\ /\ resp'.op \in {"updateSupermarket", "deleteSupermarket"}
        /\ resp' # resp
        /\ RoleOf(resp'.caller) \in RequiredRoles(resp'.op)
        /\ ~\E m \in supermarkets : m.supermarketId = resp'.req[1]
        => resp'.status = 500 /\ store' = store
     /\ /\ resp'.op \in {"updateInventory", "deleteInventory"}
        /\ resp' # resp
        /\ RoleOf(resp'.caller) \in RequiredRoles(resp'.op)
        /\ ~\E e \in inventory :
              e.supermarketId = resp'.req[1] /\ e.productId = resp'.req[2]
        => resp'.status = 500 /\ store' = store]_vars

C29_Witness ==
  /\ resp.op = "deleteInventory"
  /\ RoleOf(resp.caller) = "ADMIN"
  /\ resp.status = 500
  /\ inventory = {}
  /\ \E p \in products : p.productId = resp.req[2]
  /\ \E m \in supermarkets : m.supermarketId = resp.req[1]

\* C30: POST /inventory for a pair that has a ledger entry answers an error
\* (500 to a permitted caller), adds no entry and leaves the entry of the
\* pair, its price, inStock and updatedBy, as it is.
C30_CreateIsNoUpsert ==
  [][/\ resp'.op = "createInventory"
     /\ \E e \in inventory :
          e.productId = resp'.req[1] /\ e.supermarketId = resp'.req[2]
     => /\ resp'.status \in {403, 500}
        /\ RoleOf(resp'.caller) \in {"VERIFIED", "ADMIN"}
             => resp'.status = 500
        /\ inventory' = inventory]_vars

C30_Witness ==
  /\ resp.op = "createInventory"
  /\ resp.status = 500
  /\ Cardinality(inventory) = 1
  /\ \E e \in inventory :
       /\ e.productId = resp.req[1]
       /\ e.supermarketId = resp.req[2]
       /\ e.price # resp.req[3]
       /\ e.updatedBy # resp.caller
       /\ e.createdBy # e.updatedBy

=============================================================================
